---- MODULE Spec2Model ----
(***************************************************************************)
(* Model of dashboard.py, the HBO portfolio dashboard (a Streamlit         *)
(* script).  One behaviour is one browser session: a sequence of script    *)
(* passes, each running the password gate, load_data (memoised by          *)
(* st.cache_data(ttl=600)), process_data and one page.                     *)
(*                                                                         *)
(* Text cells are sequences of one-character strings, so the cleaning      *)
(* code is modelled on the characters it rewrites.  The euro sign is the   *)
(* token "EUR".  A blank CSV field is the empty sequence: pd.read_csv      *)
(* reads it as NaN even with dtype=str.                                    *)
(*                                                                         *)
(* Floats are fixed-point hundredths (cents for money, hundredths of a     *)
(* percent for ROI) with an explicit not-a-number flag; decimals beyond    *)
(* the second are truncated.                                               *)
(***************************************************************************)
EXTENDS Integers, Sequences, FiniteSets, TLC

VARIABLES
    authenticated,   \* st.session_state.authenticated
    pc,              \* position of the script pass
    outcome,         \* how the last pass ended
    now,             \* wall clock, seconds
    cache,           \* the st.cache_data entry of load_data
    raw,             \* the sheets read by the latest execution of load_data's body
    hbo_df,          \* module-level hbo_df of the pass
    owner_df,        \* the table object load_data hands the pass; the name owner_df
                     \* stays bound to it, as process_data returns its argument
    shared,          \* TRUE when owner_df is the very object held by the cache entry
    latest_price,    \* module-level latest_price
    total_aum,       \* module-level total_aum
    shown,           \* what the pass rendered
    password_input   \* the text_input widget's value in the pass

vars == <<authenticated, pc, outcome, now, cache, raw, hbo_df, owner_df, shared,
          latest_price, total_aum, shown, password_input>>

(***************************************************************************)
(* Bounds and program constants                                            *)
(***************************************************************************)
MaxPriceRows == 2
MaxOwnerRows == 2
MaxNow == 900
Step == 300
MaxLen == 4
Ttl == 600

PASSWORD == "hbo2024"
Passwords == {"", "wrong", PASSWORD}
Pages == {"HBO Share Price", "HBO Portfolio", "Investor Details", "Data Downloads"}

(***************************************************************************)
(* Floats                                                                  *)
(***************************************************************************)
NaN == [nan |-> TRUE, v |-> 0]
F(n) == [nan |-> FALSE, v |-> n]
FMul(k, a) == IF a.nan THEN NaN ELSE F(k * a.v)
FSub(a, b) == IF a.nan \/ b.nan THEN NaN ELSE F(a.v - b.v)
\* (a / b) * 100, in hundredths of a percent; b is a non-zero number
FPct(a, b) == IF a.nan \/ b.nan THEN NaN ELSE F((a.v * 10000) \div b.v)
FGt0(a) == ~a.nan /\ a.v > 0

(***************************************************************************)
(* Characters and Python's str -> number conversions                       *)
(***************************************************************************)
Digits == {"0", "1", "2", "3", "4", "5", "6", "7", "8", "9"}
DigitVal(c) ==
    CASE c = "0" -> 0 [] c = "1" -> 1 [] c = "2" -> 2 [] c = "3" -> 3
      [] c = "4" -> 4 [] c = "5" -> 5 [] c = "6" -> 6 [] c = "7" -> 7
      [] c = "8" -> 8 [] c = "9" -> 9

IsDigit(c) == c \in Digits
AllDigits(s) == \A i \in 1..Len(s) : IsDigit(s[i])

RECURSIVE NatOf(_)
NatOf(s) == IF s = <<>> THEN 0
            ELSE 10 * NatOf(SubSeq(s, 1, Len(s) - 1)) + DigitVal(s[Len(s)])

RECURSIVE LStrip(_)
LStrip(s) == IF s # <<>> /\ Head(s) = " " THEN LStrip(Tail(s)) ELSE s
RECURSIVE RStrip(_)
RStrip(s) == IF s # <<>> /\ s[Len(s)] = " " THEN RStrip(SubSeq(s, 1, Len(s) - 1)) ELSE s
Strip(s) == RStrip(LStrip(s))

RemoveAll(s, c) == SelectSeq(s, LAMBDA x : x # c)
ReplaceAll(s, a, b) == [i \in 1..Len(s) |-> IF s[i] = a THEN b ELSE s[i]]

Err == [ok |-> FALSE, v |-> 0]
Ok(n) == [ok |-> TRUE, v |-> n]

Unsigned(s) == IF s # <<>> /\ Head(s) \in {"-", "+"} THEN Tail(s) ELSE s
Sign(s) == IF s # <<>> /\ Head(s) = "-" THEN -1 ELSE 1

DotAt(s) == {i \in 1..Len(s) : s[i] = "."}
Pad2(f) == IF Len(f) = 0 THEN <<"0", "0">>
           ELSE IF Len(f) = 1 THEN <<f[1], "0">> ELSE <<f[1], f[2]>>

\* float(str): surrounding whitespace, a sign, digits with at most one point
PyFloat(s) ==
    LET t == Strip(s)
        u == Unsigned(t)
        d == DotAt(u)
    IN  IF Cardinality(d) > 1 THEN Err
        ELSE IF d = {} THEN
            IF u # <<>> /\ AllDigits(u) THEN Ok(Sign(t) * NatOf(u) * 100) ELSE Err
        ELSE
            LET p == CHOOSE i \in d : TRUE
                ip == SubSeq(u, 1, p - 1)
                fp == SubSeq(u, p + 1, Len(u))
            IN  IF AllDigits(ip) /\ AllDigits(fp) /\ Len(ip) + Len(fp) > 0
                THEN Ok(Sign(t) * (NatOf(ip) * 100 + NatOf(Pad2(fp))))
                ELSE Err

\* int(str): surrounding whitespace, a sign, digits
PyInt(s) ==
    LET t == Strip(s)
        u == Unsigned(t)
    IN  IF u # <<>> /\ AllDigits(u) THEN Ok(Sign(t) * NatOf(u)) ELSE Err

(***************************************************************************)
(* load_data: cleaning of the two sheets                                   *)
(***************************************************************************)
Blank == << >>
NaT == [nat |-> TRUE, ord |-> 0]
NaNName == "<NaN>"

FOk(x) == [ok |-> TRUE, f |-> x]
FErr == [ok |-> FALSE, f |-> NaN]
Lift(r) == IF r.ok THEN FOk(F(r.v)) ELSE FErr

\* a price column: every point removed, then the comma made the point
CleanPriceText(s) == ReplaceAll(RemoveAll(s, "."), ",", ".")
CleanPrice(cell) ==
    IF cell = Blank THEN FOk(NaN) ELSE Lift(PyFloat(CleanPriceText(cell)))

\* [,.](?=\d{3}(?:\D|$)) : the positions the substitution deletes
IsThousandsSep(s, i) ==
    /\ s[i] \in {",", "."}
    /\ i + 3 <= Len(s)
    /\ \A k \in 1..3 : IsDigit(s[i + k])
    /\ (i + 3 = Len(s) \/ ~IsDigit(s[i + 4]))
DropThousands(s) ==
    LET keep == {i \in 1..Len(s) : ~IsThousandsSep(s, i)}
        RECURSIVE Build(_)
        Build(i) == IF i > Len(s) THEN <<>>
                    ELSE IF i \in keep THEN <<s[i]>> \o Build(i + 1) ELSE Build(i + 1)
    IN  Build(1)
CleanCapitalText(s) ==
    ReplaceAll(DropThousands(Strip(RemoveAll(s, "EUR"))), ",", ".")
CleanCapital(cell) ==
    IF cell = Blank THEN FOk(NaN) ELSE Lift(PyFloat(CleanCapitalText(cell)))

\* astype(int) on the text column: a missing cell cannot become an integer
CleanShares(cell) == IF cell = Blank THEN Err ELSE PyInt(cell)

CleanName(cell) == IF cell = "" THEN NaNName ELSE cell

\* pd.to_datetime(..., dayfirst=True) on dd/mm/yyyy text
IsLeap(y) == (y % 4 = 0 /\ y % 100 # 0) \/ y % 400 = 0
DaysIn(m, y) ==
    IF m = 2 THEN (IF IsLeap(y) THEN 29 ELSE 28)
    ELSE IF m \in {4, 6, 9, 11} THEN 30 ELSE 31
DateOf(d, m, y) ==
    IF m \in 1..12 /\ d \in 1..DaysIn(m, y)
    THEN [ok |-> TRUE, d |-> [nat |-> FALSE, ord |-> y * 10000 + m * 100 + d]]
    ELSE [ok |-> FALSE, d |-> NaT]
DayFirstFields(s) ==
    [d |-> NatOf(SubSeq(s, 1, 2)), m |-> NatOf(SubSeq(s, 4, 5)), y |-> NatOf(SubSeq(s, 7, 10))]
ParseDate(cell) ==
    IF cell = Blank THEN [ok |-> TRUE, d |-> NaT]
    ELSE IF /\ Len(cell) = 10
            /\ cell[3] = "/" /\ cell[6] = "/"
            /\ \A i \in {1, 2, 4, 5, 7, 8, 9, 10} : IsDigit(cell[i])
         THEN LET x == DayFirstFields(cell) IN DateOf(x.d, x.m, x.y)
         ELSE [ok |-> FALSE, d |-> NaT]

HboCols == {"Date", "Total HBO Value", "HBO Share Price"}
OwnerCols == {"Full Name", "Invested Capital", "Total Shares"}
DerivedCols == {"Total Value (EUR)", "Return (EUR)", "ROI (%)"}

NoneDf == [columns |-> {}, rows |-> <<>>]
NoneResult == [ok |-> FALSE, hbo |-> NoneDf, owner |-> NoneDf]

HboRow(r) ==
    [Date |-> ParseDate(r.Date).d, Total |-> CleanPrice(r.Total).f,
     Price |-> CleanPrice(r.Price).f]
HboRowOk(r) ==
    ParseDate(r.Date).ok /\ CleanPrice(r.Total).ok /\ CleanPrice(r.Price).ok
OwnerRow(r) ==
    [Name |-> CleanName(r.Name), Capital |-> CleanCapital(r.Capital).f,
     Shares |-> CleanShares(r.Shares).v, Value |-> NaN, Return |-> NaN, ROI |-> NaN]
OwnerRowOk(r) == CleanCapital(r.Capital).ok /\ CleanShares(r.Shares).ok

\* the body of load_data: both tables, or (None, None) on any exception
LoadBody(sheets) ==
    IF /\ sheets.up
       /\ \A i \in 1..Len(sheets.hbo) : HboRowOk(sheets.hbo[i])
       /\ \A i \in 1..Len(sheets.owner) : OwnerRowOk(sheets.owner[i])
    THEN [ok |-> TRUE,
          hbo |-> [columns |-> HboCols,
                   rows |-> [i \in 1..Len(sheets.hbo) |-> HboRow(sheets.hbo[i])]],
          owner |-> [columns |-> OwnerCols,
                     rows |-> [i \in 1..Len(sheets.owner) |-> OwnerRow(sheets.owner[i])]]]
    ELSE NoneResult

(***************************************************************************)
(* The remote sheets a fetch may find                                      *)
(***************************************************************************)
D_0101 == <<"0", "1", "/", "0", "1", "/", "2", "0", "2", "4">>
D_0106 == <<"0", "1", "/", "0", "6", "/", "2", "0", "2", "4">>
D_3213 == <<"3", "2", "/", "1", "3", "/", "2", "0", "2", "4">>
T_10 == <<"1", "0", ",", "0", "0">>
T_12 == <<"1", "2", ",", "0", "0">>
T_1000eu == <<"1", ".", "0", "0", "0", ",", "0", "0">>
T_1200eu == <<"1", ".", "2", "0", "0", ",", "0", "0">>
T_abc == <<"a", "b", "c">>
T_cap1000 == <<"EUR", " ", "1", ",", "0", "0", "0", ".", "0", "0">>
T_cap500 == <<"EUR", " ", "5", "0", "0", ".", "0", "0">>
T_cap0 == <<"EUR", " ", "0", ".", "0", "0">>
T_100 == <<"1", "0", "0">>
T_30 == <<"3", "0">>
T_neg5 == <<"-", "5">>

PriceRows ==
    { [Date |-> D_0101, Total |-> T_1000eu, Price |-> T_10],
      [Date |-> D_0106, Total |-> T_1200eu, Price |-> T_12],
      [Date |-> D_3213, Total |-> T_1200eu, Price |-> T_12],
      [Date |-> D_0106, Total |-> T_1200eu, Price |-> Blank],
      [Date |-> D_0106, Total |-> T_abc, Price |-> T_12],
      [Date |-> Blank, Total |-> T_1000eu, Price |-> T_10] }

OwnerRows ==
    { [Name |-> "A", Capital |-> T_cap1000, Shares |-> T_100],
      [Name |-> "B", Capital |-> T_cap500, Shares |-> T_30],
      [Name |-> "C", Capital |-> T_cap0, Shares |-> T_30],
      [Name |-> "D", Capital |-> T_cap500, Shares |-> T_neg5],
      [Name |-> "", Capital |-> T_cap500, Shares |-> T_30],
      [Name |-> "E", Capital |-> T_cap500, Shares |-> T_abc],
      [Name |-> "F", Capital |-> Blank, Shares |-> T_30] }

SeqsUpTo(S, n) == UNION {[1..k -> S] : k \in 0..n}

NoSheets == [up |-> FALSE, hbo |-> <<>>, owner |-> <<>>]
\* the two-row sheets of the worked example: 10.00 then 12.00; A, and C with no capital
RefPrice == << [Date |-> D_0101, Total |-> T_1000eu, Price |-> T_10],
               [Date |-> D_0106, Total |-> T_1200eu, Price |-> T_12] >>
RefOwner == << [Name |-> "A", Capital |-> T_cap1000, Shares |-> T_100],
               [Name |-> "C", Capital |-> T_cap0, Shares |-> T_30] >>
\* every price sheet beside the reference investors, every investor sheet beside the
\* reference prices, and the source being unreachable
Sheets ==
    {NoSheets}
    \cup { [up |-> TRUE, hbo |-> h, owner |-> RefOwner] : h \in SeqsUpTo(PriceRows, MaxPriceRows) }
    \cup { [up |-> TRUE, hbo |-> RefPrice, owner |-> o] : o \in SeqsUpTo(OwnerRows, MaxOwnerRows) }

\* load_data's body over every sheet a fetch may find
LoadTable == [s \in Sheets |-> LoadBody(s)]

(***************************************************************************)
(* State                                                                   *)
(***************************************************************************)
Unbound == [bound |-> FALSE, f |-> NaN]
Bound(x) == [bound |-> TRUE, f |-> x]
NoTotal == [present |-> FALSE, Invested |-> 0, Shares |-> 0, Value |-> 0, Return |-> 0,
            ROI |-> F(0)]
NoShow == [page |-> "", total |-> NoTotal, csv |-> <<>>]
EmptyCache == [filled |-> FALSE, value |-> NoneResult, expires |-> 0]

Init ==
    /\ authenticated = FALSE
    /\ pc = "gate"
    /\ outcome = "running"
    /\ now = 0
    /\ cache = EmptyCache
    /\ raw = NoSheets
    /\ hbo_df = NoneDf
    /\ owner_df = NoneDf
    /\ shared = FALSE
    /\ latest_price = Unbound
    /\ total_aum = Unbound
    /\ shown = NoShow
    /\ password_input = ""

(***************************************************************************)
(* The password gate                                                       *)
(***************************************************************************)
PasswordOkAnyText(pw) == pw # ""
PasswordOk(pw) == pw = PASSWORD

PassVars == <<hbo_df, owner_df, shared, latest_price, total_aum, shown>>

\* a new script pass: a widget interaction, or st.rerun()
Rerun ==
    /\ pc = "end"
    /\ pc' = "gate"
    /\ outcome' = "running"
    /\ hbo_df' = NoneDf
    /\ owner_df' = NoneDf
    /\ shared' = FALSE
    /\ latest_price' = Unbound
    /\ total_aum' = Unbound
    /\ shown' = NoShow
    /\ password_input' = ""
    /\ UNCHANGED <<authenticated, now, cache, raw>>

PasswordGate ==
    /\ pc = "gate"
    /\ IF authenticated
       THEN /\ pc' = "load"
            /\ UNCHANGED <<authenticated, outcome, password_input>>
       ELSE \E pw \in Passwords :
            /\ password_input' = pw
            /\ IF PasswordOk(pw)
               THEN /\ authenticated' = TRUE
                    /\ pc' = "end"
                    /\ outcome' = "rerun"
               ELSE /\ authenticated' = authenticated
                    /\ pc' = "end"
                    /\ outcome' = IF pw # "" THEN "wrong_password" ELSE "no_password"
    /\ UNCHANGED <<now, cache, raw>>
    /\ UNCHANGED PassVars

(***************************************************************************)
(* load_data behind st.cache_data(ttl=600)                                 *)
(***************************************************************************)
CacheHit == cache.filled /\ now < cache.expires

\* st.cache_data stores a pickled copy: the caller never holds the entry itself
HandsOutEntryItself == TRUE
HandsOutEntry == FALSE

\* what the cache keeps when the body returned r: any returned value, (None, None) too
Stored(r) == r

Finish(result) ==
    IF result.ok
    THEN /\ hbo_df' = result.hbo
         /\ owner_df' = result.owner
         /\ shared' = HandsOutEntry
         /\ pc' = "process"
         /\ outcome' = outcome
    ELSE /\ hbo_df' = NoneDf
         /\ owner_df' = NoneDf
         /\ shared' = FALSE
         /\ pc' = "end"
         /\ outcome' = "load_failed"

\* a cache miss: the body runs on what the source holds and its result is stored
Fetch(sheets, result) ==
    /\ raw' = sheets
    /\ cache' = [filled |-> TRUE, value |-> Stored(result), expires |-> now + Ttl]
    /\ Finish(cache'.value)

LoadData ==
    /\ pc = "load"
    /\ IF CacheHit
       THEN /\ Finish(cache.value)
            /\ UNCHANGED <<cache, raw>>
       ELSE \E sheets \in Sheets : Fetch(sheets, LoadTable[sheets])
    /\ UNCHANGED <<authenticated, now, latest_price, total_aum, shown, password_input>>

(***************************************************************************)
(* process_data                                                            *)
(***************************************************************************)
Dated(rows) == {i \in 1..Len(rows) : ~rows[i].Date.nat}
EarliestRows(rows) ==
    IF Dated(rows) # {}
    THEN {rows[i] : i \in {k \in Dated(rows) :
                            \A j \in Dated(rows) : rows[k].Date.ord <= rows[j].Date.ord}}
    ELSE {rows[i] : i \in 1..Len(rows)}
\* sort_values("Date", ascending=False).iloc[0]: missing dates sort last
LatestRows(rows) ==
    IF Dated(rows) # {}
    THEN {rows[i] : i \in {k \in Dated(rows) :
                            \A j \in Dated(rows) : rows[j].Date.ord <= rows[k].Date.ord}}
    ELSE {rows[i] : i \in 1..Len(rows)}

DeriveRow(r, price) ==
    LET value == FMul(r.Shares, price)
        return == FSub(value, r.Capital)
    IN  [r EXCEPT !.Value = value,
                  !.Return = return,
                  !.ROI = IF FGt0(r.Capital) THEN FPct(return, r.Capital) ELSE F(0)]
Derive(df, price) ==
    [columns |-> df.columns \cup DerivedCols,
     rows |-> [i \in 1..Len(df.rows) |-> DeriveRow(df.rows[i], price)]]

Compute(latest) ==
    /\ latest_price' = Bound(latest.Price)
    /\ total_aum' = Bound(latest.Total)
    /\ owner_df' = Derive(owner_df, latest.Price)
    /\ cache' = IF shared THEN [cache EXCEPT !.value.owner = owner_df'] ELSE cache
    /\ pc' = "page"
    /\ outcome' = outcome

\* a variant that carries on with a default when there is no row
ProcessDataDefaulting ==
    /\ pc = "process"
    /\ IF Len(hbo_df.rows) = 0
       THEN Compute([Date |-> NaT, Total |-> NaN, Price |-> NaN])
       ELSE \E latest \in LatestRows(hbo_df.rows) : Compute(latest)
    /\ UNCHANGED <<authenticated, now, raw, hbo_df, shared, shown, password_input>>

ProcessData ==
    /\ pc = "process"
    /\ IF Len(hbo_df.rows) = 0
       THEN /\ pc' = "end"
            /\ outcome' = "exception"
            /\ UNCHANGED <<latest_price, total_aum, owner_df, cache>>
       ELSE \E latest \in LatestRows(hbo_df.rows) : Compute(latest)
    /\ UNCHANGED <<authenticated, now, raw, hbo_df, shared, shown, password_input>>

(***************************************************************************)
(* The pages                                                               *)
(***************************************************************************)
RECURSIVE SumSkipNa(_)
SumSkipNa(fs) ==
    IF fs = <<>> THEN 0
    ELSE (IF Head(fs).nan THEN 0 ELSE Head(fs).v) + SumSkipNa(Tail(fs))
RECURSIVE SumInt(_)
SumInt(ns) == IF ns = <<>> THEN 0 ELSE Head(ns) + SumInt(Tail(ns))

Column(rows, c) == [i \in 1..Len(rows) |-> rows[i][c]]

MeanROI(rows) ==
    IF Len(rows) = 0 THEN F(0)
    ELSE F(SumSkipNa(Column(rows, "ROI")) \div Len(rows))
TotalROI(rows) ==
    LET invested == SumSkipNa(Column(rows, "Capital"))
        return == SumSkipNa(Column(rows, "Return"))
    IN  IF invested > 0 THEN FPct(F(return), F(invested)) ELSE F(0)
TotalRow(rows) ==
    [present |-> TRUE,
     Invested |-> SumSkipNa(Column(rows, "Capital")),
     Shares |-> SumInt(Column(rows, "Shares")),
     Value |-> SumSkipNa(Column(rows, "Value")),
     Return |-> SumSkipNa(Column(rows, "Return")),
     ROI |-> TotalROI(rows)]

DigitChar(d) ==
    CASE d = 0 -> "0" [] d = 1 -> "1" [] d = 2 -> "2" [] d = 3 -> "3" [] d = 4 -> "4"
      [] d = 5 -> "5" [] d = 6 -> "6" [] d = 7 -> "7" [] d = 8 -> "8" [] d = 9 -> "9"
RECURSIVE NatText(_)
NatText(n) == IF n < 10 THEN <<DigitChar(n)>>
              ELSE NatText(n \div 10) \o <<DigitChar(n % 10)>>
\* to_csv writes a float as Python's repr does, and a missing value as nothing
FormatPlain(x) ==
    IF x.nan THEN Blank
    ELSE LET a == IF x.v < 0 THEN -x.v ELSE x.v
             frac == a % 100
         IN  (IF x.v < 0 THEN <<"-">> ELSE <<>>) \o NatText(a \div 100) \o <<".">> \o
             (IF frac % 10 = 0 THEN <<DigitChar(frac \div 10)>>
              ELSE <<DigitChar(frac \div 10), DigitChar(frac % 10)>>)

RenderPage ==
    /\ pc = "page"
    /\ \E page \in Pages :
        shown' = [page |-> page,
                  total |-> IF page = "Investor Details" THEN TotalRow(owner_df.rows)
                            ELSE NoTotal,
                  csv |-> IF page = "Data Downloads"
                          THEN [i \in 1..Len(owner_df.rows) |->
                                   FormatPlain(owner_df.rows[i].Capital)]
                          ELSE <<>>]
    /\ pc' = "end"
    /\ outcome' = "rendered"
    /\ UNCHANGED <<authenticated, now, cache, raw, hbo_df, owner_df, shared,
                   latest_price, total_aum, password_input>>

\* time passes between passes
Tick ==
    /\ pc = "end"
    /\ now + Step <= MaxNow
    /\ now' = now + Step
    /\ UNCHANGED <<authenticated, pc, outcome, cache, raw, password_input>>
    /\ UNCHANGED PassVars

Next ==
    \/ Rerun
    \/ PasswordGate
    \/ LoadData
    \/ ProcessData
    \/ RenderPage
    \/ Tick

Spec == Init /\ [][Next]_vars

(***************************************************************************)
(* The cleaning alone: one cell of text in a price column, or in the       *)
(* Invested Capital column, read by a pass that has reached load_data with *)
(* nothing cached.                                                         *)
(***************************************************************************)
Alphabet == {"0", "1", ",", "."}
F_1p500c00 == <<"1", ".", "5", "0", "0", ",", "0", "0">>
F_1c500p00 == <<"1", ",", "5", "0", "0", ".", "0", "0">>
F_1500p00 == <<"1", "5", "0", "0", ".", "0", "0">>
F_eur2c144p68 == <<"EUR", " ", "2", ",", "1", "4", "4", ".", "6", "8">>
Fixtures == {F_1p500c00, F_1c500p00, F_1500p00, F_eur2c144p68}
NormInputs == SeqsUpTo(Alphabet, MaxLen) \cup Fixtures \cup {T_10, T_12}

PriceSheet(s) ==
    [up |-> TRUE, hbo |-> << [Date |-> D_0101, Total |-> s, Price |-> T_10] >>,
     owner |-> RefOwner]
CapitalSheet(s) ==
    [up |-> TRUE, hbo |-> RefPrice,
     owner |-> << [Name |-> "A", Capital |-> s, Shares |-> T_100] >>]

NormInit ==
    /\ authenticated = TRUE
    /\ pc = "load"
    /\ outcome = "running"
    /\ now = 0
    /\ cache = EmptyCache
    /\ raw = NoSheets
    /\ hbo_df = NoneDf
    /\ owner_df = NoneDf
    /\ shared = FALSE
    /\ latest_price = Unbound
    /\ total_aum = Unbound
    /\ shown = NoShow
    /\ password_input = ""

LoadPriceCell ==
    /\ pc = "load"
    /\ ~CacheHit
    /\ \E s \in NormInputs : Fetch(PriceSheet(s), LoadBody(PriceSheet(s)))
    /\ UNCHANGED <<authenticated, now, latest_price, total_aum, shown, password_input>>

LoadCapitalCell ==
    /\ pc = "load"
    /\ ~CacheHit
    /\ \E s \in NormInputs : Fetch(CapitalSheet(s), LoadBody(CapitalSheet(s)))
    /\ UNCHANGED <<authenticated, now, latest_price, total_aum, shown, password_input>>

NormNext == LoadPriceCell \/ LoadCapitalCell

SpecNorm == NormInit /\ [][NormNext]_vars

(***************************************************************************)
(* Properties                                                              *)
(***************************************************************************)

\* C10: load_data runs, and a page is produced, only in a pass that finds
\* authenticated true; authenticated starts false, turns true only in a pass whose
\* entered password is PASSWORD, is never reset, and a wrong or empty password ends
\* the pass with authenticated still false.
PastTheGate ==
    \/ pc \in {"load", "process", "page"}
    \/ outcome \in {"load_failed", "exception", "rendered"}
    \/ cache.filled
    \/ hbo_df # NoneDf
    \/ shown # NoShow
C10_GateGuardsDashboard ==
    /\ authenticated = FALSE
    /\ [](PastTheGate => authenticated)
    /\ [][/\ (authenticated => authenticated')
          /\ (~authenticated /\ authenticated' => password_input' = PASSWORD)
          /\ (outcome' \in {"wrong_password", "no_password"} => ~authenticated')
          /\ (~authenticated /\ pc = "gate" /\ password_input' # PASSWORD
                => pc' = "end" /\ ~authenticated')]_vars
C10_Witness ==
    authenticated /\ outcome = "rendered" /\ shown.page # "" /\ cache.filled

\* C1: a fetch that fails once the cached tables have expired leaves the previously
\* loaded tables in the cache, and they, not the failure, are what the pass is given.
C1_FailedRefetchKeepsPrior ==
    [][(/\ pc = "load"
        /\ cache.filled /\ cache.value.ok /\ ~CacheHit
        /\ pc' # "load"
        /\ ~LoadBody(raw').ok)
       => (/\ cache'.value = cache.value
           /\ hbo_df' = cache.value.hbo
           /\ owner_df' = cache.value.owner)]_vars

\* C2: a sheet holding a date or numeric cell that is no date or number (a blank
\* cell included) fails the whole load, so no pass goes on to process_data with it.
NotANumber(cell, cleaned) == cell = Blank \/ ~cleaned.ok
NotADate(cell) == cell = Blank \/ ~ParseDate(cell).ok
HasUnparseableCell(sheets) ==
    \/ \E i \in 1..Len(sheets.hbo) :
        \/ NotADate(sheets.hbo[i].Date)
        \/ NotANumber(sheets.hbo[i].Total, CleanPrice(sheets.hbo[i].Total))
        \/ NotANumber(sheets.hbo[i].Price, CleanPrice(sheets.hbo[i].Price))
    \/ \E i \in 1..Len(sheets.owner) :
        \/ NotANumber(sheets.owner[i].Capital, CleanCapital(sheets.owner[i].Capital))
        \/ NotANumber(sheets.owner[i].Shares, CleanShares(sheets.owner[i].Shares))
C2_UnparseableCellFailsLoad ==
    (cache.filled /\ raw.up /\ HasUnparseableCell(raw))
        => (~cache.value.ok /\ pc \notin {"process", "page"} /\ outcome # "rendered")

\* C4: an investor sheet with a negative share count, a blank name or an unparseable
\* share count fails the load, so no such table reaches process_data.
InvalidInvestorRow(r) ==
    \/ r.Name = ""
    \/ ~CleanShares(r.Shares).ok
    \/ CleanShares(r.Shares).v < 0
C4_InvalidInvestorRowFailsLoad ==
    (cache.filled /\ raw.up /\ \E i \in 1..Len(raw.owner) : InvalidInvestorRow(raw.owner[i]))
        => (~cache.value.ok /\ pc # "process")

\* The cell a cleaning pass read, the column it stood in, and what load_data made of it
PriceColumnRead == Len(raw.hbo) = 1
CellRead == IF PriceColumnRead THEN raw.hbo[1].Total ELSE raw.owner[1].Capital
CellLoaded ==
    IF ~cache.value.ok THEN FErr
    ELSE IF PriceColumnRead THEN FOk(cache.value.hbo.rows[1].Total)
    ELSE FOk(cache.value.owner.rows[1].Capital)
OtherColumn(s) == IF PriceColumnRead THEN CleanCapital(s) ELSE CleanPrice(s)
SameColumn(s) == IF PriceColumnRead THEN CleanPrice(s) ELSE CleanCapital(s)
FixtureValue(s) == IF s = F_eur2c144p68 THEN 214468 ELSE 150000

\* C5: a price column and invested_capital are cleaned by the same rule, under which
\* "1.500,00", "1,500.00" and "1500.00" are 1500.00 and "EUR 2,144.68" is 2144.68.
C5_SameRuleBothColumns ==
    cache.filled =>
        /\ CellLoaded = OtherColumn(CellRead)
        /\ CellRead \in Fixtures => CellLoaded = FOk(F(FixtureValue(CellRead)))

\* digits, with at most one separator between digits standing for the decimal point,
\* or one of the quoted fixtures
WellFormed(s) ==
    \/ s \in Fixtures
    \/ /\ s # <<>>
       /\ \A i \in 1..Len(s) : IsDigit(s[i]) \/ (s[i] \in {",", "."} /\ 1 < i /\ i < Len(s))
       /\ Cardinality({i \in 1..Len(s) : ~IsDigit(s[i])}) <= 1

\* C8: the value a column makes of a well-formed numeric string, written back as plain
\* decimal text and cleaned again by that column, is the same value.
C8_NormalizationIdempotent ==
    (cache.filled /\ WellFormed(CellRead) /\ CellLoaded.ok /\ ~CellLoaded.f.nan)
        => SameColumn(FormatPlain(CellLoaded.f)) = CellLoaded

\* C3: with no price row, process_data raises before it binds or changes anything: no
\* latest price, no AUM, no derived column, and the pass renders nothing.
C3_EmptySeriesRaises ==
    [][(pc = "process" /\ Len(hbo_df.rows) = 0)
       => (/\ pc' = "end"
           /\ outcome' = "exception"
           /\ latest_price' = Unbound
           /\ total_aum' = Unbound
           /\ owner_df' = owner_df
           /\ owner_df'.columns \cap DerivedCols = {}
           /\ shown' = NoShow)]_vars
C3_Witness ==
    /\ outcome = "exception"
    /\ hbo_df.columns = HboCols /\ Len(hbo_df.rows) = 0
    /\ Len(owner_df.rows) > 0
    /\ latest_price = Unbound

\* C6: process_data takes the price of a row with the greatest date (a missing date
\* ranks below every date) and gives each investor row value = shares x price,
\* return = value - capital, and ROI = return / capital x 100 when capital > 0 and
\* 0.0 otherwise; not-a-number operands give not-a-number results.  The worked
\* example (10.00 then 12.00; capital 1000.00, 100 shares) gives 1200.00, 200.00, 20.00.
HasGreatestDate(rows, r) ==
    \E i \in 1..Len(rows) :
        /\ rows[i] = r
        /\ \A j \in 1..Len(rows) :
            \/ rows[j].Date.nat
            \/ (~r.Date.nat /\ rows[j].Date.ord <= r.Date.ord)
MetricsOf(in, out, price) ==
    /\ out.Name = in.Name /\ out.Capital = in.Capital /\ out.Shares = in.Shares
    /\ out.Value.nan = price.nan
    /\ ~price.nan => out.Value.v = in.Shares * price.v
    /\ out.Return.nan = (price.nan \/ in.Capital.nan)
    /\ ~out.Return.nan => out.Return.v = out.Value.v - in.Capital.v
    /\ IF ~in.Capital.nan /\ in.Capital.v > 0
       THEN /\ out.ROI.nan = out.Return.nan
            /\ ~out.ROI.nan => out.ROI.v = (out.Return.v * 10000) \div in.Capital.v
       ELSE out.ROI = F(0)
WorkedExample(rows, in, out) ==
    (/\ Len(rows) = 2
     /\ \E i, j \in 1..2 : /\ rows[i].Date.ord = 20240101 /\ rows[i].Price = F(1000)
                           /\ rows[j].Date.ord = 20240601 /\ rows[j].Price = F(1200)
     /\ in.Capital = F(100000) /\ in.Shares = 100)
    => (out.Value = F(120000) /\ out.Return = F(20000) /\ out.ROI = F(2000))
C6_PerInvestorMetrics ==
    [][(pc = "process" /\ pc' = "page")
       => \E latest \in {hbo_df.rows[i] : i \in 1..Len(hbo_df.rows)} :
            /\ HasGreatestDate(hbo_df.rows, latest)
            /\ latest_price' = Bound(latest.Price)
            /\ Len(owner_df'.rows) = Len(owner_df.rows)
            /\ \A i \in 1..Len(owner_df.rows) :
                /\ MetricsOf(owner_df.rows[i], owner_df'.rows[i], latest.Price)
                /\ WorkedExample(hbo_df.rows, owner_df.rows[i], owner_df'.rows[i])]_vars
C6_Witness ==
    /\ pc = "page"
    /\ Len(hbo_df.rows) = 2
    /\ hbo_df.rows[1].Date.ord # hbo_df.rows[2].Date.ord
    /\ latest_price = Bound(F(1200))
    /\ \E i \in 1..Len(owner_df.rows) :
        /\ owner_df.rows[i].Capital = F(100000)
        /\ owner_df.rows[i].Value = F(120000)
        /\ owner_df.rows[i].ROI = F(2000)
    /\ \E i \in 1..Len(owner_df.rows) :
        owner_df.rows[i].Capital = F(0) /\ owner_df.rows[i].ROI = F(0)

\* C7: the TOTAL row holds the sums of invested capital, shares, value and return over
\* the investor rows (a not-a-number cell adds nothing, as pandas sums), and its ROI is
\* sum(return) / sum(invested) x 100 when sum(invested) > 0 and 0 otherwise: the ratio
\* of the sums, not the mean of the rows' ROI.
RECURSIVE Sigma(_, _)
Sigma(f, n) == IF n = 0 THEN 0 ELSE Sigma(f, n - 1) + f[n]
Numbers(rows, c) == [i \in 1..Len(rows) |-> IF rows[i][c].nan THEN 0 ELSE rows[i][c].v]
C7_TotalRowRatioOfSums ==
    shown.page = "Investor Details" =>
        LET rows == owner_df.rows
            n == Len(rows)
            invested == Sigma(Numbers(rows, "Capital"), n)
            return == Sigma(Numbers(rows, "Return"), n)
        IN  /\ shown.total.present
            /\ shown.total.Invested = invested
            /\ shown.total.Shares = Sigma([i \in 1..n |-> rows[i].Shares], n)
            /\ shown.total.Value = Sigma(Numbers(rows, "Value"), n)
            /\ shown.total.Return = return
            /\ shown.total.ROI =
                 IF invested > 0 THEN F((return * 10000) \div invested) ELSE F(0)
C7_Witness ==
    /\ shown.page = "Investor Details"
    /\ Len(owner_df.rows) = 2
    /\ \A i \in 1..2 : ~owner_df.rows[i].ROI.nan /\ ~owner_df.rows[i].Capital.nan
    /\ owner_df.rows[1].ROI # owner_df.rows[2].ROI
    /\ owner_df.rows[1].Capital # owner_df.rows[2].Capital
    /\ shown.total.Invested > 0
    /\ shown.total.ROI # MeanROI(owner_df.rows)

\* C9 as claimed: process_data leaves both tables it receives as they were.
C9_ProcessDataLeavesInputs ==
    [][pc = "process" => (hbo_df' = hbo_df /\ owner_df' = owner_df /\ cache' = cache)]_vars

\* C9 as amended: process_data leaves the price table as it was and adds the three
\* derived columns in place to the investor table it receives, keeping each row's
\* name, capital and shares; the pass holds a copy, so the tables in the load_data
\* cache entry change only when a miss stores a fresh result, and a hit hands out
\* tables without derived columns.
C9_CacheEntryNeverMutated ==
    [][/\ pc = "process" =>
            /\ hbo_df' = hbo_df
            /\ cache' = cache
            /\ Len(owner_df'.rows) = Len(owner_df.rows)
            /\ \A i \in 1..Len(owner_df.rows) :
                /\ owner_df'.rows[i].Name = owner_df.rows[i].Name
                /\ owner_df'.rows[i].Capital = owner_df.rows[i].Capital
                /\ owner_df'.rows[i].Shares = owner_df.rows[i].Shares
            /\ pc' = "page" => owner_df'.columns = OwnerCols \cup DerivedCols
       /\ cache' # cache => (pc = "load" /\ ~CacheHit)
       /\ (pc = "load" /\ CacheHit /\ cache.value.ok) =>
            /\ hbo_df' = cache.value.hbo
            /\ owner_df' = cache.value.owner
            /\ owner_df'.columns = OwnerCols]_vars
\* a later pass is served from the cache after an earlier pass derived its metrics
C9_Witness ==
    /\ pc = "page"
    /\ now > 0 /\ now < cache.expires
    /\ Len(owner_df.rows) > 0
    /\ owner_df.columns = OwnerCols \cup DerivedCols
    /\ cache.value.ok
    /\ cache.value.owner.columns = OwnerCols
    /\ cache.value.owner # owner_df

====
